---- MODULE Spec2Model ----
(***************************************************************************)
(* The reflection engine of ChatPPT (src/src/reflection_engine.py): the    *)
(* analyze -> improve -> evaluate workflow built by create_graph, its      *)
(* router _should_continue, _extract_result, and the driver                *)
(* reflect_and_improve that streams the workflow.                          *)
(*                                                                         *)
(* Scores and the improvement threshold are counted in tenths (6.1 is 61,  *)
(* 0.2 is 2).  The score and threshold sets below never put a difference   *)
(* exactly on the threshold, so tenths and Python floats order alike.      *)
(*                                                                         *)
(* Two specifications:                                                     *)
(*   Spec        the compiled workflow stepped node by node to END (or to  *)
(*               the exception a node or the router raises), followed by   *)
(*               _extract_result on the state it ended in;                 *)
(*   DriverSpec  reflect_and_improve as written: the for loop over         *)
(*               graph.stream, its except clause and the final             *)
(*               _extract_result(final_state).                             *)
(***************************************************************************)
EXTENDS Integers, Sequences, FiniteSets, TLC

VARIABLES
    cfg,              \* self.max_iterations, self.min_iterations, self.improvement_threshold
    liveState,        \* does the graph runtime hand callbacks the live state object?
    initial_content,  \* the argument of reflect_and_improve
    state,            \* the ReflectionState carried by the workflow
    pc,               \* the workflow's next node, "END", or "raised"
    error,            \* the exception that left the workflow ("none" if none)
    evals,            \* history: state.evaluation as stored by each Evaluate so far
    calls,            \* history: the stages whose oracle call returned, in order
    drv,              \* reflect_and_improve's position ("none" under Spec)
    caught,           \* the exception reflect_and_improve's except clause caught
    result,           \* the ReflectionOutput, once extracted
    cancel_requested, \* the caller wants the run abandoned (no code reads it)
    runs,             \* ConcurrentSpec: the calls of reflect_and_improve on one engine
    conf              \* ConfigSpec: the Config object under construction

vars == <<cfg, liveState, initial_content, state, pc, error, evals, calls, drv, caught,
          result, cancel_requested, runs, conf>>

-----------------------------------------------------------------------------
(* Bounds *)

\* Spec explores every validated configuration with max_iterations <= MaxIter.
MaxIter == 3

\* DriverSpec explores every validated configuration with max_iterations <= MaxIterDriver.
MaxIterDriver == 7

\* improvement_threshold values explored, in tenths.
Thresholds == {2, 5}

\* Scores the Evaluator's oracle may report, in tenths.
Scores == {50, 60, 61, 92}

-----------------------------------------------------------------------------
(* Python values *)

PyNone == [py |-> "None"]

\* A str.  body is either text that is no JSON document or a JSON document;
\* fenced says the text is wrapped in ```json ... ``` markers.
Text(t) == [py |-> "str", fenced |-> FALSE, body |-> [json |-> FALSE, text |-> t]]
JsonText(v) == [py |-> "str", fenced |-> FALSE, body |-> [json |-> TRUE, value |-> v]]
Fenced(s) == [s EXCEPT !.fenced = TRUE]

\* bool(v) for the values a ReflectionState field holds.
Truthy(v) ==
    CASE v.py = "None" -> FALSE
      [] v.py = "dict" -> v.keys # {}
      [] v.py = "list" -> v.len > 0
      [] OTHER -> TRUE

IsDict(v) == v.py = "dict"

-----------------------------------------------------------------------------
(* Configuration *)

DefaultReflectionConfig ==
    [max_iterations |-> 7, min_iterations |-> 3, improvement_threshold |-> 2]

\* Config.validate_config, the reflection part (thresholds in tenths: 0 < t < 1).
ValidReflectionConfigZeroFloor(c) ==
    /\ 0 <= c.min_iterations
    /\ c.min_iterations <= c.max_iterations
    /\ 0 < c.improvement_threshold
    /\ c.improvement_threshold < 10

ValidReflectionConfig(c) ==
    /\ 0 < c.min_iterations
    /\ c.min_iterations <= c.max_iterations
    /\ 0 < c.improvement_threshold
    /\ c.improvement_threshold < 10

ConfigsUpTo(n) ==
    {c \in [max_iterations : 1..n, min_iterations : 1..n,
            improvement_threshold : Thresholds] : ValidReflectionConfig(c)}

InitialContents == {Text(""), Text("draft")}

-----------------------------------------------------------------------------
(* ReflectionState *)

ReflectionState(content) ==
    [content |-> content,
     analysis |-> PyNone,
     improved_content |-> PyNone,
     evaluation |-> PyNone,
     iterations |-> 0,
     previous_score |-> 0]

-----------------------------------------------------------------------------
(* The oracle's replies (llm.invoke(...).content) *)

AnalysisRecord ==
    [py |-> "dict", keys |-> {"strengths", "weaknesses", "suggestions"}]

\* The improved text the oracle writes in cycle k.
Revision(k) == [py |-> "str", fenced |-> FALSE,
                body |-> [json |-> FALSE, text |-> "revision", cycle |-> k]]

ImprovementRecord(k) ==
    [py |-> "dict", keys |-> {"improved_content", "changes"},
     improved_content |-> Revision(k)]

ImprovementWithoutContent == [py |-> "dict", keys |-> {"changes"}]

EvaluationRecord(s) ==
    [py |-> "dict", keys |-> {"score", "overall_assessment"}, score |-> s]

EvaluationWithoutScore == [py |-> "dict", keys |-> {"overall_assessment"}]

EmptyRecord == [py |-> "dict", keys |-> {}]

\* A JSON document that is no object: a one-element array.
JsonArray == [py |-> "list", len |-> 1]

AnalyzerReplies ==
    {JsonText(AnalysisRecord), Fenced(JsonText(AnalysisRecord)), Text("not json"),
     JsonText(JsonArray)}

ImproverReplies(k) ==
    {Fenced(JsonText(ImprovementRecord(k))),
     JsonText(ImprovementWithoutContent),
     Text("not json"),
     JsonText(JsonArray)}

EvaluatorReplies ==
    {JsonText(EvaluationRecord(s)) : s \in Scores}
        \cup {Fenced(JsonText(EvaluationRecord(61))),
              JsonText(EvaluationWithoutScore),
              JsonText(EmptyRecord),
              Text("not json"),
              JsonText(JsonArray)}

-----------------------------------------------------------------------------
(* Response parsing *)

\* _clean_json_string: drops the ```json / ``` markers and surrounding blanks.
CleanJsonString(s) == [s EXCEPT !.fenced = FALSE]

\* json.loads: the decoded value, or JSONDecodeError.
JsonLoads(s) ==
    IF s.body.json /\ ~s.fenced
    THEN [ok |-> TRUE, value |-> s.body.value]
    ELSE [ok |-> FALSE]

ParseFailure(raw) ==
    [py |-> "dict", keys |-> {"error", "raw_content"},
     error |-> "Failed to parse JSON", raw_content |-> raw]

-----------------------------------------------------------------------------
(* The three stage nodes.  Each takes the state and the oracle's reply.     *)

\* _analyze_content, lines 149-159.
AnalyzeContentCommitting(st, raw) ==
    LET parsed == JsonLoads(CleanJsonString(raw))
    IN  [st EXCEPT !.analysis =
            IF parsed.ok THEN parsed.value ELSE ParseFailure(raw),
                   !.content = raw]

AnalyzeContentCounting(st, raw) ==
    LET parsed == JsonLoads(CleanJsonString(raw))
    IN  [st EXCEPT !.analysis =
            IF parsed.ok THEN parsed.value ELSE ParseFailure(raw),
                   !.iterations = st.iterations + 1]

AnalyzeContent(st, raw) ==
    LET parsed == JsonLoads(CleanJsonString(raw))
    IN  [st EXCEPT !.analysis =
            IF parsed.ok THEN parsed.value ELSE ParseFailure(raw)]

\* _improve_content, lines 172-183: improvement_data.get on a decoded value
\* that is no dict raises AttributeError, which the except clause does not catch.
ImproveRaises(raw) ==
    LET parsed == JsonLoads(CleanJsonString(raw))
    IN  IF parsed.ok /\ ~IsDict(parsed.value) THEN "AttributeError" ELSE "none"

ImproveContentOverwriting(st, raw) ==
    LET parsed == JsonLoads(CleanJsonString(raw))
        improved == IF parsed.ok
                    THEN IF IsDict(parsed.value) /\ "improved_content" \in parsed.value.keys
                         THEN parsed.value.improved_content
                         ELSE Text("")
                    ELSE raw
    IN  [st EXCEPT !.improved_content = improved, !.content = improved]

ImproveContent(st, raw) ==
    LET parsed == JsonLoads(CleanJsonString(raw))
    IN  [st EXCEPT !.improved_content =
            IF parsed.ok
            THEN IF IsDict(parsed.value) /\ "improved_content" \in parsed.value.keys
                 THEN parsed.value.improved_content
                 ELSE Text("")
            ELSE raw]

\* _evaluate_improvement, lines 195-207.
EvaluateImprovementCommitOnSuccess(st, raw) ==
    LET parsed == JsonLoads(CleanJsonString(raw))
    IN  IF parsed.ok
        THEN [st EXCEPT !.evaluation = parsed.value,
                        !.iterations = st.iterations + 1,
                        !.content = st.improved_content]
        ELSE [st EXCEPT !.evaluation = ParseFailure(raw)]

EvaluateImprovementRecordingScore(st, raw) ==
    LET parsed == JsonLoads(CleanJsonString(raw))
    IN  [st EXCEPT !.evaluation =
                       IF parsed.ok THEN parsed.value ELSE ParseFailure(raw),
                   !.iterations = st.iterations + 1,
                   !.content = st.improved_content,
                   !.previous_score =
                       IF parsed.ok /\ IsDict(parsed.value) /\ "score" \in parsed.value.keys
                       THEN parsed.value.score
                       ELSE st.previous_score]

EvaluateImprovement(st, raw) ==
    LET parsed == JsonLoads(CleanJsonString(raw))
    IN  [st EXCEPT !.evaluation =
                       IF parsed.ok THEN parsed.value ELSE ParseFailure(raw),
                   !.iterations = st.iterations + 1,
                   !.content = st.improved_content]

-----------------------------------------------------------------------------
(* The router and the result *)

\* The `>= 9` of line 123, in tenths.
QualityTarget == 90

\* state.evaluation['score'] then float(...), line 120.
ScoreLookupRaises(ev) ==
    IF ~IsDict(ev) THEN "TypeError"
    ELSE IF "score" \notin ev.keys THEN "KeyError"
    ELSE "none"

\* Line 115: the hard budget.
BudgetExhaustedOffByOne(st) == st.iterations > cfg.max_iterations

BudgetExhausted(st) == st.iterations >= cfg.max_iterations

\* Line 123: the quality gate.
HighQualityAfterFloor(current_score) ==
    state.iterations >= cfg.min_iterations /\ current_score >= QualityTarget

HighQuality(current_score) == current_score >= QualityTarget

\* Lines 126-127: diminishing returns, once past the iteration floor.
NoSignificantImprovement(st, current_score) ==
    /\ st.iterations >= cfg.min_iterations
    /\ current_score - st.previous_score < cfg.improvement_threshold

\* _should_continue, lines 113-137: the exception it raises ("none" if none),
\* the value it returns, and the state object as it leaves it.
ShouldContinue(st) ==
    IF BudgetExhausted(st)
    THEN [raises |-> "none", continue |-> FALSE, state |-> st]
    ELSE IF Truthy(st.evaluation)
    THEN IF ScoreLookupRaises(st.evaluation) # "none"
         THEN [raises |-> ScoreLookupRaises(st.evaluation),
               continue |-> FALSE, state |-> st]
         ELSE LET current_score == st.evaluation.score
              IN  IF HighQuality(current_score)
                  THEN [raises |-> "none", continue |-> FALSE, state |-> st]
                  ELSE IF NoSignificantImprovement(st, current_score)
                  THEN [raises |-> "none", continue |-> FALSE, state |-> st]
                  ELSE [raises |-> "none", continue |-> TRUE,
                        state |-> [st EXCEPT !.previous_score = current_score]]
    ELSE [raises |-> "none", continue |-> TRUE, state |-> st]

\* _extract_result, lines 99-111.
ExtractResultOfCandidate(st) ==
    [final_content |-> st.improved_content,
     iterations |-> st.iterations,
     final_score |->
        IF IsDict(st.evaluation) /\ "score" \in st.evaluation.keys
        THEN st.evaluation.score
        ELSE 0]

ExtractResult(st) ==
    [final_content |-> st.content,
     iterations |-> st.iterations,
     final_score |->
        IF IsDict(st.evaluation) /\ "score" \in st.evaluation.keys
        THEN st.evaluation.score
        ELSE 0]

NoResult == [py |-> "None"]

\* No call of ConcurrentSpec, no Config of ConfigSpec, in the other specifications.
NoRuns == << >>

NoConfig == [pos |-> "none"]

-----------------------------------------------------------------------------
(* Workflow steps (create_graph, lines 48-64): entry point analyze, edges   *)
(* analyze -> improve -> evaluate, and the conditional edge from evaluate   *)
(* through _should_continue to analyze or END.  Each step names only the    *)
(* workflow's variables; the actions below add the caller's.                *)

Nodes == {"analyze", "improve", "evaluate"}

AnalyzeNode ==
    /\ pc = "analyze"
    /\ \E raw \in AnalyzerReplies : state' = AnalyzeContent(state, raw)
    /\ pc' = "improve"
    /\ calls' = Append(calls, "analyze")
    /\ UNCHANGED <<error, evals>>

ImproveNode ==
    /\ pc = "improve"
    /\ \E raw \in ImproverReplies(state.iterations + 1) :
          IF ImproveRaises(raw) = "none"
          THEN /\ state' = ImproveContent(state, raw)
               /\ pc' = "evaluate"
               /\ error' = error
          ELSE /\ state' = state
               /\ pc' = "raised"
               /\ error' = ImproveRaises(raw)
    /\ calls' = Append(calls, "improve")
    /\ UNCHANGED evals

EvaluateNode ==
    /\ pc = "evaluate"
    /\ \E raw \in EvaluatorReplies : state' = EvaluateImprovement(state, raw)
    /\ pc' = "should_continue"
    /\ calls' = Append(calls, "evaluate")
    /\ evals' = Append(evals, state'.evaluation)
    /\ UNCHANGED error

\* The conditional edge.  The router assigns state.previous_score on the object
\* it is handed and returns only a bool; the assignment reaches the next cycle
\* when the runtime handed it the live state object (liveState), and is lost
\* when it handed it a copy rebuilt from the stored fields.
ShouldContinueEdgeToImprove ==
    /\ pc = "should_continue"
    /\ LET r == ShouldContinue(state)
       IN  IF r.raises # "none"
           THEN /\ pc' = "raised"
                /\ error' = r.raises
                /\ state' = state
           ELSE /\ pc' = IF r.continue THEN "improve" ELSE "END"
                /\ error' = error
                /\ state' = IF liveState THEN r.state ELSE state
    /\ UNCHANGED <<evals, calls>>

ShouldContinueEdge ==
    /\ pc = "should_continue"
    /\ LET r == ShouldContinue(state)
       IN  IF r.raises # "none"
           THEN /\ pc' = "raised"
                /\ error' = r.raises
                /\ state' = state
           ELSE /\ pc' = IF r.continue THEN "analyze" ELSE "END"
                /\ error' = error
                /\ state' = IF liveState THEN r.state ELSE state
    /\ UNCHANGED <<evals, calls>>

\* llm.invoke raises (network, timeout) inside a node: lines 147, 170, 193.
OracleFailsNode ==
    /\ pc \in Nodes
    /\ pc' = "raised"
    /\ error' = "OracleTransportError"
    /\ UNCHANGED <<state, evals, calls>>

-----------------------------------------------------------------------------
(* Spec: the workflow on its own *)

Init ==
    /\ cfg \in ConfigsUpTo(MaxIter)
    /\ liveState \in BOOLEAN
    /\ initial_content \in InitialContents
    /\ state = ReflectionState(initial_content)
    /\ pc = "analyze"
    /\ error = "none"
    /\ evals = << >>
    /\ calls = << >>
    /\ drv = "none"
    /\ caught = "none"
    /\ result = NoResult
    /\ cancel_requested = FALSE
    /\ runs = NoRuns
    /\ conf = NoConfig

Analyze ==
    drv = "none" /\ AnalyzeNode /\ UNCHANGED <<cfg, liveState, initial_content, drv, caught, result,
                     cancel_requested, runs, conf>>

Improve ==
    drv = "none" /\ ImproveNode /\ UNCHANGED <<cfg, liveState, initial_content, drv, caught, result,
                     cancel_requested, runs, conf>>

Evaluate ==
    drv = "none" /\ EvaluateNode /\ UNCHANGED <<cfg, liveState, initial_content, drv, caught, result,
                     cancel_requested, runs, conf>>

Route ==
    drv = "none" /\ ShouldContinueEdge
        /\ UNCHANGED <<cfg, liveState, initial_content, drv, caught, result,
                     cancel_requested, runs, conf>>

OracleFails ==
    drv = "none" /\ OracleFailsNode
        /\ UNCHANGED <<cfg, liveState, initial_content, drv, caught, result,
                     cancel_requested, runs, conf>>

\* _extract_result on the state the workflow ended in.
Extract ==
    /\ drv = "none"
    /\ pc = "END"
    /\ result = NoResult
    /\ result' = ExtractResult(state)
    /\ UNCHANGED <<cfg, liveState, initial_content, state, pc, error, evals, calls,
                   drv, caught, cancel_requested, runs, conf>>

Next == Analyze \/ Improve \/ Evaluate \/ Route \/ OracleFails \/ Extract

Spec == Init /\ [][Next]_vars

-----------------------------------------------------------------------------
(* DriverSpec: reflect_and_improve, lines 69-96.                            *)
(*                                                                          *)
(* graph.stream is a generator: each pull runs the workflow's next node and *)
(* yields one chunk {<node name>: <the fields the node wrote>}, and the     *)
(* loop body runs on the chunk before the next node is started.  The body's *)
(* first statement (line 78) evaluates output['analyze']['iterations'] on   *)
(* every chunk.                                                             *)
(* final_state is bound to initial_state (line 76) and rebound only under   *)
(* a chunk key 'state' (lines 81-82), which no node is named.               *)

DriverInit ==
    /\ cfg \in ConfigsUpTo(MaxIterDriver)
    /\ liveState \in BOOLEAN
    /\ initial_content \in InitialContents
    /\ state = ReflectionState(initial_content)
    /\ pc = "analyze"
    /\ error = "none"
    /\ evals = << >>
    /\ calls = << >>
    /\ drv = "streaming"
    /\ caught = "none"
    /\ result = NoResult
    /\ cancel_requested = FALSE
    /\ runs = NoRuns
    /\ conf = NoConfig

\* The object final_state names when line 96 reads it: initial_state, which
\* the nodes have written to only if the runtime handed them that live object.
FinalState == IF liveState THEN state ELSE ReflectionState(initial_content)

\* First pull: the analyze node, then the loop body on the chunk
\* {'analyze': {field: value, ...}}: lines 78-79 find their keys, neither
\* 'state' nor 'end' is a key (lines 81, 84), and the loop goes on.
StreamAnalyze ==
    /\ drv = "streaming"
    /\ AnalyzeNode
    /\ UNCHANGED <<cfg, liveState, initial_content, drv, caught, result,
                     cancel_requested, runs, conf>>

\* Second pull: the improve node, then the loop body on the chunk
\* {'improve': v}, where output['analyze'] raises KeyError.
StreamImprove ==
    /\ drv = "streaming"
    /\ ImproveNode
    /\ drv' = "caught"
    /\ caught' = IF pc' = "raised" THEN error' ELSE "KeyError"
    /\ UNCHANGED <<cfg, liveState, initial_content, result, cancel_requested, runs, conf>>

\* A pull in which llm.invoke raises: the exception leaves graph.stream.
StreamOracleFails ==
    /\ drv = "streaming"
    /\ OracleFailsNode
    /\ drv' = "caught"
    /\ caught' = "OracleTransportError"
    /\ UNCHANGED <<cfg, liveState, initial_content, result, cancel_requested, runs, conf>>

\* Lines 91-96 with a retry: the variant that starts the stream over.
ReturnRetrying ==
    /\ drv = "caught"
    /\ drv' = "streaming"
    /\ state' = ReflectionState(initial_content)
    /\ pc' = "analyze"
    /\ error' = "none"
    /\ calls' = << >>
    /\ caught' = "none"
    /\ UNCHANGED <<cfg, liveState, initial_content, evals, result, cancel_requested,
                   runs, conf>>

\* Lines 91-96: the exception is logged and _extract_result(final_state) returned.
Return ==
    /\ drv = "caught"
    /\ result' = ExtractResult(FinalState)
    /\ drv' = "returned"
    /\ UNCHANGED <<cfg, liveState, initial_content, state, pc, error, evals, calls,
                   caught, cancel_requested, runs, conf>>

\* The caller decides to abandon the run.  reflect_and_improve takes no
\* cancellation argument and neither it, the workflow nor a node reads a
\* signal: the decision changes nothing the run looks at.
Cancel ==
    /\ drv = "streaming"
    /\ ~cancel_requested
    /\ cancel_requested' = TRUE
    /\ UNCHANGED <<cfg, liveState, initial_content, state, pc, error, evals, calls,
                   drv, caught, result, runs, conf>>

DriverNext == StreamAnalyze \/ StreamImprove \/ StreamOracleFails \/ Return \/ Cancel

DriverSpec == DriverInit /\ [][DriverNext]_vars

\* reflect_and_improve is straight-line Python on one thread: while it has
\* not returned, its next statement is executed, and every llm.invoke either
\* returns or raises.  The caller's decision to abandon is under no obligation.
DriverProgress == StreamAnalyze \/ StreamImprove \/ StreamOracleFails \/ Return

DriverLiveSpec == DriverInit /\ [][DriverNext]_vars /\ WF_vars(DriverProgress)

-----------------------------------------------------------------------------
(* ConcurrentSpec: two calls of reflect_and_improve on one engine, one      *)
(* after the other or with their steps interleaved.  The engine holds       *)
(* self.config, self.llm and the three bounds (lines 31-39); each call      *)
(* builds its own graph and its own initial_state (lines 72-73).  Each call *)
(* has a deterministic oracle: what llm.invoke does in the stages the call  *)
(* reaches is fixed before the call starts.                                 *)

RunIds == {1, 2}

\* llm.invoke raises instead of returning.
TransportFailure == [py |-> "raise", kind |-> "OracleTransportError"]

OracleScripts ==
    [analyze : AnalyzerReplies \cup {TransportFailure},
     improve : ImproverReplies(1) \cup {TransportFailure}]

IdleRun(content, script) ==
    [initial_content |-> content,
     script |-> script,
     drv |-> "idle",
     pc |-> "none",
     initial_state |-> PyNone,
     state |-> PyNone,
     caught |-> "none",
     result |-> NoResult,
     overlapped |-> FALSE]

InProgress(q) == runs[q].drv \in {"streaming", "caught"}

\* Line 73: the state a call starts from.
RunInitialStateRetained(r) ==
    [ReflectionState(runs[r].initial_content) EXCEPT
        !.iterations = Cardinality({q \in RunIds : runs[q].drv = "returned"})]

RunInitialState(r) == ReflectionState(runs[r].initial_content)

\* Line 96: the object the call's final_state names (see FinalState).
RunFinalStateShared(r) ==
    LET q == CHOOSE q \in RunIds : runs[q].drv # "idle"
    IN  IF liveState THEN runs[q].state ELSE runs[q].initial_state

RunFinalState(r) == IF liveState THEN runs[r].state ELSE runs[r].initial_state

ConcurrentInit ==
    /\ runs \in [RunIds -> {IdleRun(c, s) : c \in InitialContents, s \in OracleScripts}]
    /\ cfg = DefaultReflectionConfig
    /\ liveState \in BOOLEAN
    /\ initial_content = PyNone
    /\ state = PyNone
    /\ pc = "none"
    /\ error = "none"
    /\ evals = << >>
    /\ calls = << >>
    /\ drv = "none"
    /\ caught = "none"
    /\ result = NoResult
    /\ cancel_requested = FALSE
    /\ conf = NoConfig

\* Lines 71-76: the call is entered.
RunStart(r) ==
    /\ runs[r].drv = "idle"
    /\ runs' = [q \in RunIds |->
                  IF q = r
                  THEN [runs[r] EXCEPT !.drv = "streaming",
                                       !.pc = "analyze",
                                       !.initial_state = RunInitialState(r),
                                       !.state = RunInitialState(r),
                                       !.overlapped = \E o \in RunIds : InProgress(o)]
                  ELSE [runs[q] EXCEPT !.overlapped = @ \/ InProgress(q)]]
    /\ UNCHANGED <<cfg, liveState, initial_content, state, pc, error, evals, calls,
                   drv, caught, result, cancel_requested, conf>>

\* As StreamAnalyze, for call r.
RunAnalyze(r) ==
    /\ runs[r].drv = "streaming"
    /\ runs[r].pc = "analyze"
    /\ runs[r].script.analyze # TransportFailure
    /\ runs' = [runs EXCEPT ![r].state = AnalyzeContent(@, runs[r].script.analyze),
                            ![r].pc = "improve"]
    /\ UNCHANGED <<cfg, liveState, initial_content, state, pc, error, evals, calls,
                   drv, caught, result, cancel_requested, conf>>

\* As StreamImprove, for call r.
RunImprove(r) ==
    /\ runs[r].drv = "streaming"
    /\ runs[r].pc = "improve"
    /\ runs[r].script.improve # TransportFailure
    /\ LET raw == runs[r].script.improve
       IN  runs' =
             IF ImproveRaises(raw) = "none"
             THEN [runs EXCEPT ![r].state = ImproveContent(@, raw),
                               ![r].pc = "evaluate",
                               ![r].drv = "caught",
                               ![r].caught = "KeyError"]
             ELSE [runs EXCEPT ![r].pc = "raised",
                               ![r].drv = "caught",
                               ![r].caught = ImproveRaises(raw)]
    /\ UNCHANGED <<cfg, liveState, initial_content, state, pc, error, evals, calls,
                   drv, caught, result, cancel_requested, conf>>

\* As StreamOracleFails, for call r.
RunOracleFails(r) ==
    /\ runs[r].drv = "streaming"
    /\ runs[r].pc \in {"analyze", "improve"}
    /\ runs[r].script[runs[r].pc] = TransportFailure
    /\ runs' = [runs EXCEPT ![r].pc = "raised",
                            ![r].drv = "caught",
                            ![r].caught = "OracleTransportError"]
    /\ UNCHANGED <<cfg, liveState, initial_content, state, pc, error, evals, calls,
                   drv, caught, result, cancel_requested, conf>>

\* As Return, for call r.
RunReturn(r) ==
    /\ runs[r].drv = "caught"
    /\ runs' = [runs EXCEPT ![r].result = ExtractResult(RunFinalState(r)),
                            ![r].drv = "returned"]
    /\ UNCHANGED <<cfg, liveState, initial_content, state, pc, error, evals, calls,
                   drv, caught, result, cancel_requested, conf>>

ConcurrentNext ==
    \E r \in RunIds :
        RunStart(r) \/ RunAnalyze(r) \/ RunImprove(r) \/ RunOracleFails(r) \/ RunReturn(r)

ConcurrentSpec == ConcurrentInit /\ [][ConcurrentNext]_vars

-----------------------------------------------------------------------------
(* ConfigSpec: Config(config_file) followed by ReflectionEngine(config),    *)
(* config.py lines 36-132 and reflection_engine.py lines 29-41.             *)

\* A key the configuration file does not have.
Absent == [py |-> "absent"]

\* A JSON number.
Number(n) == [py |-> "number", value |-> n]

\* Values the file may give the three reflection keys: integers from -1 up,
\* thresholds in tenths from -0.1 to 1.2.
RawIterations == {Number(n) : n \in (-1)..MaxIter}

RawThresholds == {Number(n) : n \in {-1, 0, 2, 5, 10, 12}}

\* dict.get(key, default).
Get(raw, default) == IF raw = Absent THEN default ELSE raw.value

\* Lines 46-53: the object before load_config, with the dataclass defaults.
ConfigInit ==
    /\ conf \in [pos : {"new"},
                 config_file_exists : BOOLEAN,
                 required_files_exist : BOOLEAN,
                 reflection_max_iterations : RawIterations \cup {Absent},
                 reflection_min_iterations : RawIterations \cup {Absent},
                 reflection_improvement_threshold : RawThresholds \cup {Absent},
                 reflection : {DefaultReflectionConfig},
                 error : {"none"}]
    /\ cfg = PyNone
    /\ liveState \in BOOLEAN
    /\ initial_content = PyNone
    /\ state = PyNone
    /\ pc = "none"
    /\ error = "none"
    /\ evals = << >>
    /\ calls = << >>
    /\ drv = "none"
    /\ caught = "none"
    /\ result = NoResult
    /\ cancel_requested = FALSE
    /\ runs = NoRuns

\* load_config, lines 58-105.
LoadConfig ==
    /\ conf.pos = "new"
    /\ conf' =
          IF ~conf.config_file_exists
          THEN [conf EXCEPT !.pos = "failed", !.error = "ConfigurationError"]
          ELSE [conf EXCEPT
                  !.pos = "loaded",
                  !.reflection =
                     [max_iterations |->
                          Get(conf.reflection_max_iterations,
                              conf.reflection.max_iterations),
                      min_iterations |->
                          Get(conf.reflection_min_iterations,
                              conf.reflection.min_iterations),
                      improvement_threshold |->
                          Get(conf.reflection_improvement_threshold,
                              conf.reflection.improvement_threshold)]]
    /\ UNCHANGED <<cfg, liveState, initial_content, state, pc, error, evals, calls,
                   drv, caught, result, cancel_requested, runs>>

\* validate_config, lines 107-132: the required files first, then the bounds.
ValidateConfig ==
    /\ conf.pos = "loaded"
    /\ conf' =
          IF ~conf.required_files_exist
          THEN [conf EXCEPT !.pos = "failed", !.error = "ConfigurationError"]
          ELSE IF ~ValidReflectionConfig(conf.reflection)
          THEN [conf EXCEPT !.pos = "failed", !.error = "ConfigurationError"]
          ELSE [conf EXCEPT !.pos = "valid"]
    /\ UNCHANGED <<cfg, liveState, initial_content, state, pc, error, evals, calls,
                   drv, caught, result, cancel_requested, runs>>

\* ReflectionEngine.__init__, lines 37-39, on a constructed Config.
EngineInit ==
    /\ conf.pos = "valid"
    /\ conf' = [conf EXCEPT !.pos = "engine"]
    /\ cfg' = conf.reflection
    /\ UNCHANGED <<liveState, initial_content, state, pc, error, evals, calls,
                   drv, caught, result, cancel_requested, runs>>

ConfigNext == LoadConfig \/ ValidateConfig \/ EngineInit

ConfigSpec == ConfigInit /\ [][ConfigNext]_vars

-----------------------------------------------------------------------------
(* Helpers for the properties *)

HasScore(ev) == IsDict(ev) /\ "score" \in ev.keys

Returned == result # NoResult

\* What reflect_and_improve returned is a ReflectionOutput.
IsReflectionOutput(r) == "final_content" \in DOMAIN r

StagesCalled == {calls[i] : i \in 1..Len(calls)}

IsParseFailure(v) == IsDict(v) /\ "error" \in v.keys

\* The Evaluator's answers so far are the first answers of an oracle scripted
\* to score s[1], s[2], ... in cycles 1, 2, ...
FollowsScores(s) ==
    /\ Len(evals) <= Len(s)
    /\ \A i \in 1..Len(evals) : evals[i] = EvaluationRecord(s[i])

\* Every score so far is below 9.0 and beats the cycle before by more than
\* the threshold (the first cycle is measured against 0.0).
AlwaysImproving ==
    \A i \in 1..Len(evals) :
        /\ HasScore(evals[i])
        /\ evals[i].score < QualityTarget
        /\ evals[i].score - (IF i = 1 THEN 0 ELSE evals[i-1].score)
               > cfg.improvement_threshold

NoQualityExit ==
    \A i \in 1..Len(evals) :
        ~(HasScore(evals[i]) /\ evals[i].score >= QualityTarget)

ValidEvals == {i \in 1..Len(evals) : HasScore(evals[i])}

LastValidScore ==
    IF ValidEvals = {} THEN 0
    ELSE evals[CHOOSE i \in ValidEvals : \A j \in ValidEvals : j <= i].score

-----------------------------------------------------------------------------
(* C1  The iteration budget is never exceeded: in every state of a run      *)
(* state.iterations <= max_iterations, and the iterations of an extracted   *)
(* result are <= max_iterations.                                            *)
C1_IterationsWithinBudget ==
    /\ state.iterations <= cfg.max_iterations
    /\ Returned => result.iterations <= cfg.max_iterations

\* A run that used its whole budget of at least two cycles and was extracted.
C1_Witness ==
    /\ Returned
    /\ cfg.max_iterations >= 2
    /\ result.iterations = cfg.max_iterations

(* C2  When the evaluation the router is consulted on has a score >= 9.0,   *)
(* the router ends the workflow there - also below min_iterations - and     *)
(* once the workflow has ended no stage runs again.                         *)
C2_QualityGateStops ==
    [][ /\ ( /\ pc = "should_continue"
             /\ HasScore(state.evaluation)
             /\ state.evaluation.score >= QualityTarget )
           => pc' = "END"
        /\ pc = "END" => (pc' = "END" /\ calls' = calls /\ state' = state)
      ]_vars

\* The workflow ended on a score >= 9.0 below the iteration floor.
C2_Witness ==
    /\ pc = "END"
    /\ HasScore(state.evaluation)
    /\ state.evaluation.score >= QualityTarget
    /\ state.iterations < cfg.min_iterations
    /\ state.iterations < cfg.max_iterations

(* C3  With no score >= 9.0 and no oracle transport failure, the           *)
(* iterations reflect_and_improve reports are at least min_iterations.      *)
C3_ReflectReachesFloor ==
    ( /\ drv = "returned"
      /\ caught # "OracleTransportError"
      /\ NoQualityExit )
    => result.iterations >= cfg.min_iterations

(* C4  With min 3, max 7, threshold 0.2 and an oracle scripted to score     *)
(* 5.0, 6.0, 6.1, reflect_and_improve returns iterations 3 and final_score  *)
(* 6.1.                                                                     *)
C4_ScriptedDiminishingReturns ==
    ( /\ drv = "returned"
      /\ cfg = DefaultReflectionConfig
      /\ caught # "OracleTransportError"
      /\ FollowsScores(<<50, 60, 61>>) )
    => (result.iterations = 3 /\ result.final_score = 61)

(* C5  With min 3, max 7, threshold 0.2 and an oracle scripted to score     *)
(* 5.0 then 9.2, reflect_and_improve returns iterations 2 and final_score   *)
(* 9.2.                                                                     *)
C5_ScriptedQualityExit ==
    ( /\ drv = "returned"
      /\ cfg = DefaultReflectionConfig
      /\ caught # "OracleTransportError"
      /\ FollowsScores(<<50, 92>>) )
    => (result.iterations = 2 /\ result.final_score = 92)

(* C6  With max_iterations 4 and scores that stay below 9.0 and improve by  *)
(* more than the threshold every cycle, reflect_and_improve returns         *)
(* iterations 4 and the content committed in the 4th cycle.                 *)
C6_RunsToBudget ==
    ( /\ drv = "returned"
      /\ cfg.max_iterations = 4
      /\ caught # "OracleTransportError"
      /\ AlwaysImproving )
    => ( /\ result.iterations = 4
         /\ state.iterations = 4
         /\ result.final_content = state.content )

(* C7  What reflect_and_improve returns is the last committed state:        *)
(* final_content is the workflow's content, iterations is the number of     *)
(* Evaluate commits of the run, and with no commit they are the initial     *)
(* content and 0.                                                           *)
C7_ResultIsCommittedState ==
    drv = "returned" =>
        /\ result.final_content = state.content
        /\ result.iterations = state.iterations
        /\ result.iterations = Len(evals)
        /\ Len(evals) = 0 =>
              (result.final_content = initial_content /\ result.iterations = 0)

\* A returned run whose stream got as far as the improve chunk.
C7_Witness ==
    /\ drv = "returned"
    /\ calls = <<"analyze", "improve">>
    /\ caught = "KeyError"

(* C8  The final_score extracted is the last valid numeric score any        *)
(* Evaluate of the run stored (also when a later evaluation has none), and  *)
(* 0.0 when no evaluation had one.                                          *)
C8_FinalScoreIsLastValid ==
    Returned => result.final_score = LastValidScore

(* C9  An undecodable Analyzer reply in cycle 1 does not abort the run:     *)
(* analysis is the parse-failure record, the cycle's Evaluate still runs    *)
(* and reflect_and_improve reports at least one iteration.                  *)
C9_MalformedAnalysisTolerated ==
    ( /\ drv = "returned"
      /\ caught # "OracleTransportError"
      /\ IsParseFailure(state.analysis) )
    => ( /\ "evaluate" \in {calls[i] : i \in 1..Len(calls)}
         /\ result.iterations >= 1 )

(* C10  Consulted on an evaluation record without a score, with             *)
(* 0 < iterations < max_iterations, the router continues, leaves            *)
(* previous_score alone and raises nothing.                                 *)
C10_NoScoreContinues ==
    [][ ( /\ pc = "should_continue"
          /\ IsDict(state.evaluation)
          /\ ~HasScore(state.evaluation)
          /\ 0 < state.iterations
          /\ state.iterations < cfg.max_iterations )
        => ( /\ pc' = "analyze"
             /\ error' = "none"
             /\ state'.previous_score = state.previous_score )
      ]_vars

(* C11  After an oracle transport error the run makes no further oracle     *)
(* call, and what reflect_and_improve hands the caller is an error outcome, *)
(* not a ReflectionOutput.                                                  *)
C11_TransportErrorSurfaced ==
    [][ /\ caught = "OracleTransportError" => calls' = calls
        /\ (caught = "OracleTransportError" /\ drv' = "returned")
               => ~IsReflectionOutput(result')
      ]_vars

(* C12  A run that failed with a transport error in cycle k+1 reports       *)
(* iterations k and the content committed in cycle k: the initial content   *)
(* and 0 when no cycle committed, the workflow's committed content          *)
(* otherwise.                                                               *)
C12_NoPartialCommit ==
    (drv = "returned" /\ caught = "OracleTransportError") =>
        /\ result.iterations = Len(evals)
        /\ Len(evals) = 0 => result.final_content = initial_content
        /\ Len(evals) > 0 => result.final_content = state.content

\* The transport error came in Improve, after Analyze had stored its analysis.
C12_Witness ==
    /\ drv = "returned"
    /\ caught = "OracleTransportError"
    /\ calls = <<"analyze">>
    /\ state.analysis # PyNone

(* C14  reflect_and_improve on the empty string, with an oracle that        *)
(* answers every call: Analyze, Improve and Evaluate all run and a          *)
(* ReflectionOutput is returned.                                            *)
C14_EmptyContentCompletes ==
    ( /\ drv = "returned"
      /\ initial_content = Text("")
      /\ caught \notin {"OracleTransportError", "AttributeError"} )
    => ( /\ {"analyze", "improve", "evaluate"} \subseteq StagesCalled
         /\ IsReflectionOutput(result) )

(* C16  Once the caller has asked for the run to be abandoned, a run that   *)
(* stands before an Analyze stage starts no further stage: no oracle call   *)
(* is added.                                                                *)
C16_CancellationHonoured ==
    [][ (cancel_requested /\ pc = "analyze" /\ drv = "streaming")
            => (calls' = calls /\ pc' # "improve")
      ]_vars

\* The step is an Evaluate stage whose oracle call returned.
EvaluateStep == pc = "evaluate" /\ pc' = "should_continue"

(* C18  Every Evaluate step whose oracle call returned commits, whether or  *)
(* not the reply parsed: afterwards content is the improved_content the     *)
(* cycle's Improve stored and iterations is one more than before.           *)
C18_EvaluateCommits ==
    [][ EvaluateStep =>
            /\ state'.content = state.improved_content
            /\ state'.improved_content = state.improved_content
            /\ state'.iterations = state.iterations + 1
      ]_vars

\* The second cycle's evaluation did not parse and its revision was committed.
C18_Witness ==
    /\ pc = "should_continue"
    /\ IsParseFailure(state.evaluation)
    /\ state.iterations = 2
    /\ state.content = Revision(2)

(* C19  Only an Evaluate step changes content: Analyze, Improve and the     *)
(* router leave it as it was, whether their reply parsed or not.            *)
C19_ContentFrame ==
    [][ ~EvaluateStep => state'.content = state.content ]_vars

\* Improve has stored a reply that did not parse, after an analysis that did
\* not parse either, and content is still the initial content.
C19_Witness ==
    /\ pc = "evaluate"
    /\ IsParseFailure(state.analysis)
    /\ state.improved_content = Text("not json")
    /\ state.content = initial_content
    /\ state.content # state.improved_content

\* How many times the router has been consulted, the consultation that a
\* finished Evaluate leads to included.
Consultations == Cardinality({i \in 1..Len(calls) : calls[i] = "evaluate"})

(* C20  iterations is 0 at the start, goes up by exactly one in each        *)
(* Evaluate step and is changed by no other step, so the router's k-th      *)
(* consultation sees iterations = k.                                        *)
C20_IterationsCountCycles ==
    /\ state.iterations = 0
    /\ [][ /\ EvaluateStep => state'.iterations = state.iterations + 1
           /\ ~EvaluateStep => state'.iterations = state.iterations
           /\ pc' = "should_continue" => state'.iterations = Consultations'
         ]_vars

\* The router's third consultation.
C20_Witness ==
    /\ pc = "should_continue"
    /\ Consultations = 3
    /\ state.iterations = 3

\* 0 < min <= max and 0 < threshold < 1 (in tenths), with max >= 1.
BoundsHold(c) ==
    /\ c.max_iterations >= 1
    /\ 0 < c.min_iterations
    /\ c.min_iterations <= c.max_iterations
    /\ 0 < c.improvement_threshold
    /\ c.improvement_threshold < 10

SameInputs(r1, r2) ==
    /\ runs[r1].initial_content = runs[r2].initial_content
    /\ runs[r1].script = runs[r2].script

AnswersEveryCall(script) ==
    TransportFailure \notin {script.analyze, script.improve}

(* C13  Two calls of reflect_and_improve on one engine with the same        *)
(* initial content, configuration and oracle responses return the same      *)
(* ReflectionOutput, whatever the other call did before or meanwhile.       *)
C13_Deterministic ==
    \A r1, r2 \in RunIds :
        ( /\ runs[r1].drv = "returned"
          /\ runs[r2].drv = "returned"
          /\ SameInputs(r1, r2) )
        => runs[r1].result = runs[r2].result

\* reflect_and_improve was run twice, one call after the other, on the same
\* content with the same oracle, which answered every call.
C13_Witness ==
    /\ \A r \in RunIds : runs[r].drv = "returned" /\ ~runs[r].overlapped
    /\ SameInputs(1, 2)
    /\ AnswersEveryCall(runs[1].script)

\* What one call returns when it runs alone: its steps one after the other.
ReflectAlone(content, script) ==
    LET s0 == ReflectionState(content)
        s1 == IF script.analyze = TransportFailure
              THEN s0
              ELSE AnalyzeContent(s0, script.analyze)
        s2 == IF \/ ~AnswersEveryCall(script)
                 \/ ImproveRaises(script.improve) # "none"
              THEN s1
              ELSE ImproveContent(s1, script.improve)
    IN  ExtractResult(IF liveState THEN s2 ELSE s0)

(* C15  With the steps of two calls interleaved in any order, each call     *)
(* works on its own ReflectionState and returns what it returns when run    *)
(* alone with the same oracle responses.                                    *)
C15_RunsIndependent ==
    \A r \in RunIds :
        runs[r].drv = "returned" =>
            runs[r].result = ReflectAlone(runs[r].initial_content, runs[r].script)

\* Two overlapping calls on different contents with different oracle
\* responses, both returned.
C15_Witness ==
    /\ \A r \in RunIds : runs[r].drv = "returned" /\ runs[r].overlapped
    /\ runs[1].initial_content # runs[2].initial_content
    /\ runs[1].script # runs[2].script
    /\ \A r \in RunIds : AnswersEveryCall(runs[r].script)

(* C21  A run ends only out of Evaluating, on the router's answer to stop:  *)
(* when reflect_and_improve returns after a run in which every oracle call  *)
(* was answered with a JSON object or undecodable text, the workflow has    *)
(* been through Analyze, Improve and Evaluate and stands at END.            *)
C21_TerminatesFromEvaluating ==
    [][ ( /\ drv = "caught"
          /\ drv' = "returned"
          /\ caught \notin {"OracleTransportError", "AttributeError"} )
        => ( /\ pc = "END"
             /\ Len(calls) >= 3
             /\ calls[Len(calls)] = "evaluate" )
      ]_vars

(* C22  The router's update of previous_score persists: when the router is  *)
(* consulted in cycle k+1 and cycle k's evaluation had a score (on which    *)
(* the router continued), previous_score is that score.                     *)
C22_PreviousScorePersists ==
    ( /\ pc = "should_continue"
      /\ Len(evals) >= 2
      /\ HasScore(evals[Len(evals) - 1]) )
    => state.previous_score = evals[Len(evals) - 1].score

(* C23  After every Improve step whose oracle call returned,                *)
(* improved_content is set: never None, and the reply's raw text when the   *)
(* reply was no JSON at all.                                                *)
C23_ImprovedContentSet ==
    [][ (pc = "improve" /\ calls' = Append(calls, "improve"))
        => ( /\ state'.improved_content # PyNone
             /\ pc' = "evaluate" )
      ]_vars

(* C24  Once a cycle has committed (iterations >= 1), content is a          *)
(* non-empty string, whatever the oracle answered.                          *)
C24_ContentNonEmpty ==
    state.iterations >= 1 =>
        (state.content.py = "str" /\ state.content # Text(""))

(* C25  No oracle reply, in any stage, makes response handling raise: the   *)
(* only exception that ends a workflow is an oracle transport failure.      *)
C25_ParsingNeverRaises ==
    /\ pc = "raised" => error = "OracleTransportError"
    /\ error \in {"none", "OracleTransportError"}

\* The stage of the i-th oracle call of a run.
StageAt(i) ==
    CASE i % 3 = 1 -> "analyze"
      [] i % 3 = 2 -> "improve"
      [] OTHER -> "evaluate"

(* C26  The oracle is called in the repeating order Analyze, Improve,       *)
(* Evaluate; the router is consulted once after each Evaluate and nowhere   *)
(* else; and the workflow ends only on the router's answer, so after at     *)
(* least one full cycle of three calls.                                     *)
C26_StageOrder ==
    /\ [] ( /\ \A i \in 1..Len(calls) : calls[i] = StageAt(i)
            /\ pc = "should_continue" => (Len(calls) > 0 /\ Len(calls) % 3 = 0)
            /\ pc = "END" => Len(calls) >= 3 )
    /\ [][ /\ (pc' = "should_continue" /\ pc # "should_continue") => EvaluateStep
           /\ EvaluateStep => pc' = "should_continue"
           /\ pc = "should_continue" => pc' \in {"analyze", "END", "raised"}
           /\ (pc' = "END" /\ pc # "END") => pc = "should_continue"
         ]_vars

\* The workflow ended after two full cycles.
C26_Witness ==
    /\ pc = "END"
    /\ calls = <<"analyze", "improve", "evaluate", "analyze", "improve", "evaluate">>

(* C27  Every call of reflect_and_improve returns, whatever the oracle      *)
(* answers and whether or not its calls fail, and it reports at most        *)
(* max_iterations iterations.                                               *)
C27_Terminates ==
    <>(drv = "returned" /\ result.iterations <= cfg.max_iterations)

\* A returned run in which no reply could be decoded.
C27_Witness ==
    /\ drv = "returned"
    /\ IsParseFailure(state.analysis)
    /\ state.improved_content = Text("not json")
    /\ result.iterations <= cfg.max_iterations

(* C28  Analyze changes only analysis, Improve only improved_content,       *)
(* Evaluate only evaluation, content and iterations; no stage changes       *)
(* previous_score.                                                          *)
C28_StageFrame ==
    [][ /\ (pc = "analyze" /\ pc' = "improve")
              => [state' EXCEPT !.analysis = state.analysis] = state
        /\ (pc = "improve" /\ pc' \in {"evaluate", "raised"})
              => [state' EXCEPT !.improved_content = state.improved_content] = state
        /\ EvaluateStep
              => /\ state'.analysis = state.analysis
                 /\ state'.improved_content = state.improved_content
                 /\ state'.previous_score = state.previous_score
      ]_vars

\* The second Evaluate has stored a score that previous_score does not hold.
C28_Witness ==
    /\ pc = "should_continue"
    /\ state.iterations = 2
    /\ HasScore(state.evaluation)
    /\ state.evaluation.score # state.previous_score
    /\ state.analysis = AnalysisRecord

====
